---------------------------- MODULE Spec2Model ----------------------------
(***************************************************************************)
(* Model of the request-statistics collector of stats.go.                  *)
(*                                                                         *)
(* One Stats value is shared by                                            *)
(*   - updater threads, each running Begin ... EndWithStatus for one       *)
(*     request after another,                                              *)
(*   - the window scheduler goroutine started by New(), and                *)
(*   - exporter threads calling Data().                                    *)
(* mu is a sync.RWMutex.  Go maps and pointers are reference types: the    *)
(* report returned by Data() holds references to the maps and to the peak  *)
(* record of the store, not copies.  The only map the store ever replaces  *)
(* is ResponseCounts (ResetResponseCounts), so that map lives in a small   *)
(* heap of map objects and the store and the reports hold heap ids.        *)
(*                                                                         *)
(* Time is counted in model units of 1/Second of a second.  The wall-clock *)
(* metadata of a report (Pid, UpTime, Time, TimeUnix) is left out.         *)
(*                                                                         *)
(* Spec is the system under any scheduling, FairSpec the same system under *)
(* the scheduling Go gives its goroutines and its RWMutex, and             *)
(* SpecSecondsToDate the exported function SecondsToDate called on its own.*)
(***************************************************************************)
EXTENDS Integers, Sequences, FiniteSets, TLC

(***************************************************************************)
(* Bounds of the model.                                                    *)
(***************************************************************************)
\* number of requests the updaters start altogether
MaxRequests == 2
\* units of time the clock is followed for; later readings repeat the last one
MaxTime == 1
\* the largest time.Duration (math.MaxInt64 ns), scaled to the model
MaxDuration == 1000

\* number of units (minutes, hours, days, weeks) the arguments of SecondsToDate
\* go up to
MaxMultiple == 30
\* how far around a multiple of a unit the arguments of SecondsToDate go
Window == 2

\* units of model time per second (time.Second)
Second == 2

Updaters == {"u1", "u2"}
Exporters == {"e1", "e2"}
Scheduler == "w"
NoThread == "none"

\* request kinds the surrounding server hands to the middleware
Requests ==
  { [status |-> 200, url |-> "/a", method |-> "GET",  useragent |-> "curl"],
    [status |-> 404, url |-> "/b", method |-> "POST", useragent |-> "moz"] }

\* requests that all name the same URL
SameURLRequests ==
  { [status |-> 200, url |-> "/a", method |-> "GET",  useragent |-> "curl"] }

\* one worker, one exporter, mixed traffic
OneWorker ==
  [updaters |-> {"u1"}, exporters |-> {"e1"}, requests |-> Requests,
   maxTime |-> MaxTime]

\* concurrent workers and exporters, traffic for one URL, and a clock too
\* coarse to tell its readings apart: every reading is StartTime
Shared ==
  [updaters |-> Updaters, exporters |-> Exporters, requests |-> SameURLRequests,
   maxTime |-> 0]

\* time.Time{} : the zero time, further than MaxDuration before any reading
ZeroTime == 0
\* the first reading of the clock in the life of the process
StartTime == 2 * MaxDuration + 2

(***************************************************************************)
(* Go values.                                                              *)
(***************************************************************************)
\* map[string]int{} / map[string]float64{}
EmptyMap == << >>

\* m[k] as an rvalue: the zero value when k has no entry
Get(m, k) == IF k \in DOMAIN m THEN m[k] ELSE 0

\* m[k] = v
Put(m, k, v) == [x \in (DOMAIN m) \cup {k} |-> IF x = k THEN v ELSE m[x]]

\* the sum a range loop over m accumulates
RECURSIVE SumMap(_)
SumMap(m) ==
  IF DOMAIN m = {} THEN 0
  ELSE LET k == CHOOSE x \in DOMAIN m : TRUE
       IN  m[k] + SumMap([x \in (DOMAIN m) \ {k} |-> m[x]])

Digit == <<"0", "1", "2", "3", "4", "5", "6", "7", "8", "9">>

\* fmt.Sprintf("%d", status)
RECURSIVE Sprintf_d(_)
Sprintf_d(n) ==
  IF n < 0 THEN "-" \o Sprintf_d(0 - n)
  ELSE IF n < 10 THEN Digit[n + 1]
  ELSE Sprintf_d(n \div 10) \o Digit[(n % 10) + 1]

\* Go's integer division truncates toward zero
Quot(a, b) ==
  IF (a >= 0) = (b > 0) THEN (IF a >= 0 THEN a \div b ELSE (0 - a) \div (0 - b))
  ELSE 0 - ((IF a >= 0 THEN a ELSE 0 - a) \div (IF b >= 0 THEN b ELSE 0 - b))

\* t.Sub(u): the duration t - u, saturated at the largest duration
Sub(t, u) ==
  IF t - u > MaxDuration THEN MaxDuration
  ELSE IF t - u < 0 - MaxDuration THEN 0 - MaxDuration
  ELSE t - u

\* float64(x) of an integer of less than 53 bits is the same number
Float64(x) == x

\* d.Seconds(): a float, kept as the fraction num/den
Seconds(d) == [num |-> d, den |-> Second]

\* Round(v, 0): float64(int(v*1 + 0.5)) / 1, v given as a fraction
Round(v, decimals) == Quot(2 * v.num + v.den, 2 * v.den)

\* SecondsToDate with the weeks left out of the hours
SecondsToDateWeeksForgotten(seconds2) ==
  LET seconds  == seconds2
      weeks    == Quot(seconds, 7*24*60*60)
      days     == Quot(seconds, 24*60*60) - 7*weeks
      hours    == Quot(seconds, 60*60) - 24*days
      minutes  == Quot(seconds, 60) - 7*24*60*weeks - 24*60*days - 60*hours
      seconds3 == seconds - 7*24*60*60*weeks - 24*60*60*days - 60*60*hours - 60*minutes
  IN  [Weeks |-> weeks, Days |-> days, Hours |-> hours, Minutes |-> minutes,
       Seconds |-> seconds3]

\* SecondsToDate(seconds2)
SecondsToDate(seconds2) ==
  LET seconds  == seconds2
      weeks    == Quot(seconds, 7*24*60*60)
      days     == Quot(seconds, 24*60*60) - 7*weeks
      hours    == Quot(seconds, 60*60) - 7*24*weeks - 24*days
      minutes  == Quot(seconds, 60) - 7*24*60*weeks - 24*60*days - 60*hours
      seconds3 == seconds - 7*24*60*60*weeks - 24*60*60*days - 60*60*hours - 60*minutes
  IN  [Weeks |-> weeks, Days |-> days, Hours |-> hours, Minutes |-> minutes,
       Seconds |-> seconds3]

\* &TimeSpan{}
ZeroTimeSpan == [Weeks |-> 0, Days |-> 0, Hours |-> 0, Minutes |-> 0, Seconds |-> 0]

(***************************************************************************)
(* State.                                                                  *)
(***************************************************************************)
VARIABLES
  env,                  \* the deployment: worker threads, traffic, clock horizon
  clock,                \* the latest reading time.Now() has returned
  muWriter,             \* mu: the thread holding the write lock, or NoThread
  muReaders,            \* mu: the threads holding a read lock
  heap,                 \* the status-count map objects, by id
  ResponseCounts,       \* Stats.ResponseCounts: the id of the window map
  TotalResponseCounts,
  URLRequestLatency,
  URLRequestCounts,
  TotalResponseTime,
  RequestTypeCounts,
  UserAgentCounts,
  URLHighestResponse,
  URLLowestResponse,
  MaxResponseTime,      \* the ResponseURL record Stats.MaxResponseTime points to
  upc, ulocal,          \* updaters: position and locals
  started,              \* requests begun so far
  wpc,                  \* the window scheduler's position
  dpc, dlocal,          \* exporters: position and locals of Data()
  report,               \* exporters: the report the latest Data() returned
  call,                 \* a direct call of SecondsToDate: its argument and result
  recorded,             \* history: the requests folded into the store, in order
  resetAt,              \* history: Len(recorded) at the latest window reset
  completed             \* history: number of EndWithStatus calls that returned

storeVars == <<heap, ResponseCounts, TotalResponseCounts, URLRequestLatency,
               URLRequestCounts, TotalResponseTime, RequestTypeCounts,
               UserAgentCounts, URLHighestResponse, URLLowestResponse,
               MaxResponseTime>>
cumulativeVars == <<TotalResponseCounts, URLRequestLatency, URLRequestCounts,
                    TotalResponseTime, RequestTypeCounts, UserAgentCounts,
                    URLHighestResponse, URLLowestResponse>>
muVars == <<muWriter, muReaders>>
updaterVars == <<upc, ulocal, started>>
exporterVars == <<dpc, dlocal, report>>
historyVars == <<recorded, resetAt, completed>>
vars == <<env, clock, muVars, storeVars, updaterVars, wpc, exporterVars,
          call, historyVars>>

MapIds == 1 .. (2 + Cardinality(Exporters))
NoReport == [none |-> TRUE]
NoLocal == [none |-> TRUE]
\* no call of SecondsToDate from outside Data()
NoCall == [seconds2 |-> 0, ret |-> NoLocal]

\* the window map the store points to
WindowMap == heap[ResponseCounts]

\* ids of the map objects something still points to
Live(rc, rep) ==
  {rc} \cup {rep[e].StatusCodeCount : e \in {x \in Exporters : rep[x] # NoReport}}

\* the heap with every unreachable map object freed
Collect(h, live) == [i \in MapIds |-> IF i \in live THEN h[i] ELSE EmptyMap]

\* map[string]int{} : a fresh map object
NewMap(live) == CHOOSE i \in MapIds \ live : \A j \in MapIds \ live : i <= j

(***************************************************************************)
(* sync.RWMutex                                                            *)
(***************************************************************************)
\* a write lock that does not wait for the readers to leave
LockIgnoringReaders(t) ==
  /\ muWriter = NoThread
  /\ muWriter' = t
  /\ UNCHANGED muReaders

\* a write lock that does not wait for another writer to leave
LockIgnoringWriter(t) ==
  /\ muReaders = {}
  /\ muWriter' = t
  /\ UNCHANGED muReaders

\* mu.Lock() returns at once for thread t: no writer has the turn and no
\* reader is inside
Lock(t) ==
  /\ muWriter = NoThread
  /\ muReaders = {}
  /\ muWriter' = t
  /\ UNCHANGED muReaders

\* mu.Lock() called by thread t while readers are inside: t has the writer's
\* turn, RLock lets no new reader in, and t waits for the readers to leave
LockAnnounce(t) ==
  /\ muWriter = NoThread
  /\ muReaders # {}
  /\ muWriter' = t
  /\ UNCHANGED muReaders

\* mu.Lock() returns for thread t, which had to wait: the last reader has left
LockDrained(t) ==
  /\ muWriter = t
  /\ muReaders = {}
  /\ UNCHANGED muVars

\* Unlock left out: the writer's turn is never given back
UnlockMissing(t) == UNCHANGED muVars

\* mu.Unlock()
Unlock(t) ==
  /\ muWriter' = NoThread
  /\ UNCHANGED muReaders

\* a read lock that does not wait for the writer to leave
RLockIgnoringWriter(t) ==
  /\ muReaders' = muReaders \cup {t}
  /\ UNCHANGED muWriter

\* mu.RLock() returns for thread t
RLock(t) ==
  /\ muWriter = NoThread
  /\ muReaders' = muReaders \cup {t}
  /\ UNCHANGED muWriter

\* RUnlock left out: the reader never leaves
RUnlockMissing(t) == UNCHANGED muVars

\* mu.RUnlock()
RUnlock(t) ==
  /\ muReaders' = muReaders \ {t}
  /\ UNCHANGED muWriter

\* the latest reading of the clock the model follows
Horizon == StartTime + env.maxTime

\* time.Now(): the clock is monotonic; any amount of time may have passed
Now(t) == /\ t \in clock .. Horizon
          /\ clock' = t

(***************************************************************************)
(* New()                                                                   *)
(***************************************************************************)
\* the Stats value New() returns, its scheduler about to run, and no request
\* or export under way
New ==
  /\ clock = StartTime
  /\ muWriter = NoThread
  /\ muReaders = {}
  /\ heap = [i \in MapIds |-> EmptyMap]
  /\ ResponseCounts = 1
  /\ TotalResponseCounts = EmptyMap
  /\ URLRequestCounts = EmptyMap
  /\ URLRequestLatency = EmptyMap
  /\ TotalResponseTime = ZeroTime
  /\ RequestTypeCounts = EmptyMap
  /\ UserAgentCounts = EmptyMap
  /\ URLHighestResponse = EmptyMap
  /\ URLLowestResponse = EmptyMap
  /\ MaxResponseTime = [ResponseURL |-> "", RepsonseMethod |-> "",
                        ResponseDuration |-> 0, ResponseTime |-> ZeroTime,
                        ResponseSeconds |-> Seconds(0),
                        ResponseSince |-> ZeroTimeSpan]
  /\ upc = [u \in Updaters |-> "idle"]
  /\ ulocal = [u \in Updaters |-> NoLocal]
  /\ started = 0
  /\ wpc = "lock"
  /\ dpc = [e \in Exporters |-> "idle"]
  /\ dlocal = [e \in Exporters |-> NoLocal]
  /\ report = [e \in Exporters |-> NoReport]
  /\ recorded = << >>
  /\ resetAt = 0
  /\ completed = 0

Init ==
  /\ env \in {OneWorker, Shared}
  /\ call = NoCall
  /\ New

(***************************************************************************)
(* The window scheduler: the goroutine of New()                            *)
(***************************************************************************)
\* ResetResponseCounts: mw.mu.Lock()
ResetLock ==
  /\ wpc = "lock"
  /\ Lock(Scheduler)
  /\ wpc' = "reset"
  /\ UNCHANGED <<env, call, clock, storeVars, updaterVars, exporterVars, historyVars>>

\* a reset that clears the cumulative status counts in place of the window
ResetAssignCumulative ==
  /\ wpc = "reset"
  /\ TotalResponseCounts' = EmptyMap
  /\ resetAt' = Len(recorded)
  /\ wpc' = "unlock"
  /\ UNCHANGED <<env, call, clock, muVars, heap, ResponseCounts, URLRequestLatency,
                 URLRequestCounts, TotalResponseTime, RequestTypeCounts,
                 UserAgentCounts, URLHighestResponse, URLLowestResponse,
                 MaxResponseTime, updaterVars, exporterVars, recorded, completed>>

\* ResetResponseCounts: mw.mu.Lock() with an export under way
ResetLockAnnounce ==
  /\ wpc = "lock"
  /\ LockAnnounce(Scheduler)
  /\ wpc' = "drain"
  /\ UNCHANGED <<env, call, clock, storeVars, updaterVars, exporterVars, historyVars>>

\* ResetResponseCounts: mw.mu.Lock() returns after the exports have left
ResetLockDrained ==
  /\ wpc = "drain"
  /\ LockDrained(Scheduler)
  /\ wpc' = "reset"
  /\ UNCHANGED <<env, call, clock, storeVars, updaterVars, exporterVars, historyVars>>

\* ResetResponseCounts: mw.ResponseCounts = map[string]int{}
ResetAssign ==
  /\ wpc = "reset"
  /\ LET id == NewMap(Live(ResponseCounts, report))
     IN  /\ ResponseCounts' = id
         /\ heap' = [Collect(heap, Live(id, report)) EXCEPT ![id] = EmptyMap]
  /\ resetAt' = Len(recorded)
  /\ wpc' = "unlock"
  /\ UNCHANGED <<env, call, clock, muVars, cumulativeVars, MaxResponseTime, updaterVars,
                 exporterVars, recorded, completed>>

\* ResetResponseCounts: the deferred mw.mu.Unlock()
ResetUnlock ==
  /\ wpc = "unlock"
  /\ Unlock(Scheduler)
  /\ wpc' = "sleep"
  /\ UNCHANGED <<env, call, clock, storeVars, updaterVars, exporterVars, historyVars>>

\* time.Sleep(time.Second * 1): at least a second passes
Sleep ==
  /\ wpc = "sleep"
  /\ clock' = IF clock + Second > Horizon THEN Horizon
              ELSE clock + Second
  /\ wpc' = "lock"
  /\ UNCHANGED <<env, call, muVars, storeVars, updaterVars, exporterVars, historyVars>>

(***************************************************************************)
(* The recording pipeline: Begin, End, EndWithStatus                       *)
(***************************************************************************)
\* Begin: start := time.Now(), as it ran when the request came in.  Requests
\* are served concurrently and Begin touches nothing of the store, so the start
\* of the request whose End runs now is any reading of the clock up to the
\* current one, also one that precedes requests already recorded.
Begin == StartTime .. clock

\* End -> EndWithStatus: end := time.Now(); responseTime := end.Sub(start)
EndNow(u) ==
  /\ upc[u] = "idle"
  /\ started < MaxRequests
  /\ started' = started + 1
  /\ \E req \in env.requests, start \in Begin, end \in clock .. Horizon :
       /\ Now(end)
       /\ ulocal' = [ulocal EXCEPT ![u] =
                       [status |-> req.status, url |-> req.url,
                        method |-> req.method, useragent |-> req.useragent,
                        responseTime |-> Sub(end, start), count |-> 0]]
  /\ upc' = [upc EXCEPT ![u] = "lock"]
  /\ UNCHANGED <<env, call, muVars, storeVars, wpc, exporterVars, historyVars>>

\* EndWithStatus without its mw.mu.Lock()
EndLockSkipped(u) ==
  /\ upc[u] = "lock"
  /\ upc' = [upc EXCEPT ![u] = "status"]
  /\ UNCHANGED <<env, call, clock, muVars, storeVars, ulocal, started, wpc, exporterVars,
                 historyVars>>

\* EndWithStatus: mw.mu.Lock()
EndLock(u) ==
  /\ upc[u] = "lock"
  /\ Lock(u)
  /\ upc' = [upc EXCEPT ![u] = "status"]
  /\ UNCHANGED <<env, call, clock, storeVars, ulocal, started, wpc, exporterVars, historyVars>>

\* EndWithStatus: mw.mu.Lock() with an export under way
EndLockAnnounce(u) ==
  /\ upc[u] = "lock"
  /\ LockAnnounce(u)
  /\ upc' = [upc EXCEPT ![u] = "drain"]
  /\ UNCHANGED <<env, call, clock, storeVars, ulocal, started, wpc, exporterVars,
                 historyVars>>

\* EndWithStatus: mw.mu.Lock() returns after the exports have left
EndLockDrained(u) ==
  /\ upc[u] = "drain"
  /\ LockDrained(u)
  /\ upc' = [upc EXCEPT ![u] = "status"]
  /\ UNCHANGED <<env, call, clock, storeVars, ulocal, started, wpc, exporterVars,
                 historyVars>>

\* m[k]++
Inc(m, k) == Put(m, k, Get(m, k) + 1)

\* m[k] = d where m[k] += d was meant
AddReplacing(m, k, d) == Put(m, k, d)

\* m[k] += d
Add(m, k, d) == Put(m, k, Get(m, k) + d)

\* t.Add(d) with its result dropped: a time.Time is a value, Add changes nothing
AddDurationDropped(t, d) == t

\* t.Add(d)
AddDuration(t, d) == t + d

\* EndWithStatus: the status counters, the cumulative response time, and the
\* load of mw.URLRequestCounts[url] that url's ++ starts with
EndStatus(u) ==
  /\ upc[u] = "status"
  /\ LET l == ulocal[u]
         statusCode == Sprintf_d(l.status)
     IN  /\ heap' = [heap EXCEPT ![ResponseCounts] = Inc(@, statusCode)]
         /\ TotalResponseCounts' = Inc(TotalResponseCounts, statusCode)
         /\ TotalResponseTime' = AddDuration(TotalResponseTime, l.responseTime)
         /\ ulocal' = [ulocal EXCEPT ![u] =
                         [l EXCEPT !.count = Get(URLRequestCounts, l.url)]]
         /\ recorded' = Append(recorded, [url |-> l.url, method |-> l.method,
                                          status |-> l.status, useragent |-> l.useragent,
                                          elapsed |-> l.responseTime])
  /\ upc' = [upc EXCEPT ![u] = "keys"]
  /\ UNCHANGED <<env, call, clock, muVars, ResponseCounts, URLRequestCounts, URLRequestLatency,
                 RequestTypeCounts, UserAgentCounts, URLHighestResponse,
                 URLLowestResponse, MaxResponseTime, started, wpc, exporterVars,
                 resetAt, completed>>

\* EndWithStatus: the store that ends url's ++, and the other counters by URL,
\* method and user agent
EndKeys(u) ==
  /\ upc[u] = "keys"
  /\ LET l == ulocal[u]
     IN  /\ URLRequestCounts' = Put(URLRequestCounts, l.url, l.count + 1)
         /\ URLRequestLatency' = Add(URLRequestLatency, l.url, l.responseTime)
         /\ RequestTypeCounts' = Inc(RequestTypeCounts, l.method)
         /\ UserAgentCounts' = Inc(UserAgentCounts, l.useragent)
  /\ upc' = [upc EXCEPT ![u] = "extremes"]
  /\ UNCHANGED <<env, call, clock, muVars, heap, ResponseCounts, TotalResponseCounts,
                 TotalResponseTime, URLHighestResponse, URLLowestResponse,
                 MaxResponseTime, ulocal, started, wpc, exporterVars, historyVars>>

\* the peak record replaced without its method
NewPeakStaleMethod(peak, url, method, responseTime, now) ==
  IF peak.ResponseDuration < responseTime
  THEN [peak EXCEPT !.ResponseDuration = responseTime,
                    !.ResponseURL = url,
                    !.ResponseTime = now]
  ELSE peak

\* the peak record replaced on a tie as well
NewPeakOnTie(peak, url, method, responseTime, now) ==
  IF peak.ResponseDuration <= responseTime
  THEN [peak EXCEPT !.ResponseDuration = responseTime,
                    !.ResponseURL = url,
                    !.ResponseTime = now,
                    !.RepsonseMethod = method]
  ELSE peak

\* the peak record after a request (url, method, responseTime) observed at now
NewPeak(peak, url, method, responseTime, now) ==
  IF peak.ResponseDuration < responseTime
  THEN [peak EXCEPT !.ResponseDuration = responseTime,
                    !.ResponseURL = url,
                    !.ResponseTime = now,
                    !.RepsonseMethod = method]
  ELSE peak

\* URLHighestResponse after a latency for url
NewHighest(m, url, responseTime) ==
  IF Get(m, url) < Float64(responseTime) THEN Put(m, url, Float64(responseTime)) ELSE m

\* URLLowestResponse as a plain minimum: a stored zero is kept
NewLowestZeroKept(m, url, responseTime) ==
  IF url \notin DOMAIN m \/ Float64(responseTime) < m[url]
  THEN Put(m, url, Float64(responseTime))
  ELSE m

\* URLLowestResponse initialised but never lowered
NewLowestNeverLowered(m, url, responseTime) ==
  IF Get(m, url) = Float64(0) THEN Put(m, url, Float64(responseTime)) ELSE m

\* URLLowestResponse after a latency for url
NewLowest(m, url, responseTime) ==
  LET m1 == IF Get(m, url) = Float64(0) THEN Put(m, url, Float64(responseTime)) ELSE m
  IN  IF Float64(responseTime) < Get(m1, url) THEN Put(m1, url, Float64(responseTime))
      ELSE m1

\* EndWithStatus: the peak record and the extrema by URL
EndExtremes(u) ==
  /\ upc[u] = "extremes"
  /\ LET l == ulocal[u]
     IN  /\ \E now \in clock .. Horizon :
              \* time.Now() is called only where the peak is replaced
              /\ now = clock \/ MaxResponseTime.ResponseDuration < l.responseTime
              /\ Now(now)
              /\ MaxResponseTime' =
                   NewPeak(MaxResponseTime, l.url, l.method, l.responseTime, now)
         /\ URLHighestResponse' = NewHighest(URLHighestResponse, l.url, l.responseTime)
         /\ URLLowestResponse' = NewLowest(URLLowestResponse, l.url, l.responseTime)
  /\ upc' = [upc EXCEPT ![u] = "unlock"]
  /\ UNCHANGED <<env, call, muVars, heap, ResponseCounts, TotalResponseCounts,
                 URLRequestLatency, URLRequestCounts, TotalResponseTime,
                 RequestTypeCounts, UserAgentCounts, ulocal, started, wpc,
                 exporterVars, historyVars>>

\* EndWithStatus: the deferred mw.mu.Unlock(), and the return
EndUnlock(u) ==
  /\ upc[u] = "unlock"
  /\ Unlock(u)
  /\ upc' = [upc EXCEPT ![u] = "idle"]
  /\ ulocal' = [ulocal EXCEPT ![u] = NoLocal]
  /\ completed' = completed + 1
  /\ UNCHANGED <<env, call, clock, storeVars, started, wpc, exporterVars, recorded, resetAt>>

(***************************************************************************)
(* The snapshot exporter: Data()                                           *)
(***************************************************************************)
\* Data: mw.mu.RLock() called while a writer has its turn: the exporter waits
DataBlocked(e) ==
  /\ dpc[e] = "idle"
  /\ muWriter # NoThread
  /\ dpc' = [dpc EXCEPT ![e] = "rlock"]
  /\ UNCHANGED <<env, call, clock, muVars, storeVars, updaterVars, wpc, dlocal, report,
                 historyVars>>

\* the average rounded to the nearest unit instead of truncated
AverageRounded(totalResponseTime, totalCount) ==
  IF totalCount > 0 THEN Quot(2 * totalResponseTime + totalCount, 2 * totalCount) ELSE 0

\* averageResponseTime of Data
Average(totalResponseTime, totalCount) ==
  IF totalCount > 0 THEN Quot(totalResponseTime, totalCount) ELSE 0

\* an export that also starts a new window: the window map is cleared as read
DataRLockDraining(e) ==
  /\ dpc[e] \in {"idle", "rlock"}
  /\ RLock(e)
  /\ LET count == SumMap(WindowMap)
         totalCount == SumMap(TotalResponseCounts)
         totalResponseTime == Sub(TotalResponseTime, ZeroTime)
     IN  dlocal' = [dlocal EXCEPT ![e] =
                      [count |-> count, totalCount |-> totalCount,
                       totalResponseTime |-> totalResponseTime,
                       averageResponseTime |-> Average(totalResponseTime, totalCount)]]
  /\ heap' = [heap EXCEPT ![ResponseCounts] = EmptyMap]
  /\ dpc' = [dpc EXCEPT ![e] = "peak"]
  /\ UNCHANGED <<env, call, clock, ResponseCounts, cumulativeVars, MaxResponseTime,
                 updaterVars, wpc, report, historyVars>>

\* Data: mw.mu.RLock(), then count, totalCount, totalResponseTime and
\* averageResponseTime
DataRLock(e) ==
  /\ dpc[e] \in {"idle", "rlock"}
  /\ RLock(e)
  /\ LET count == SumMap(WindowMap)
         totalCount == SumMap(TotalResponseCounts)
         totalResponseTime == Sub(TotalResponseTime, ZeroTime)
     IN  dlocal' = [dlocal EXCEPT ![e] =
                      [count |-> count, totalCount |-> totalCount,
                       totalResponseTime |-> totalResponseTime,
                       averageResponseTime |-> Average(totalResponseTime, totalCount)]]
  /\ dpc' = [dpc EXCEPT ![e] = "peak"]
  /\ UNCHANGED <<env, call, clock, storeVars, updaterVars, wpc, report, historyVars>>

\* the peak record after Data has refreshed its derived fields at now
RefreshPeak(peak, now) ==
  [peak EXCEPT !.ResponseSeconds = Seconds(peak.ResponseDuration),
               !.ResponseSince =
                  SecondsToDate(Round(Seconds(Sub(now, peak.ResponseTime)), 0))]

\* Data: ResponseSeconds and ResponseSince of the peak record, written in place
DataPeak(e) ==
  /\ dpc[e] = "peak"
  /\ \E now \in clock .. Horizon :
       /\ Now(now)
       /\ MaxResponseTime' = RefreshPeak(MaxResponseTime, now)
  /\ dpc' = [dpc EXCEPT ![e] = "build"]
  /\ UNCHANGED <<env, call, muVars, heap, ResponseCounts, cumulativeVars, updaterVars, wpc,
                 dlocal, report, historyVars>>

\* r := &data{...}: the maps and the peak record go in by reference
Report(l, windowMap) ==
  [StatusCodeCount |-> windowMap,
   TotalStatusCodeCount |-> "TotalResponseCounts",
   Count |-> l.count,
   TotalCount |-> l.totalCount,
   TotalResponseTime |-> l.totalResponseTime,
   TotalResponseTimeSec |-> Seconds(l.totalResponseTime),
   AverageResponseTime |-> l.averageResponseTime,
   AverageResponseTimeSec |-> Seconds(l.averageResponseTime),
   URLRequestCounts |-> "URLRequestCounts",
   RequestTypeCounts |-> "RequestTypeCounts",
   UserAgentCounts |-> "UserAgentCounts",
   URLRequestLatency |-> "URLRequestLatency",
   URLHighestResponse |-> "URLHighestResponse",
   URLLowestResponse |-> "URLLowestResponse",
   MaxResponseTime |-> "MaxResponseTime"]

\* Data: r := &data{...}; mw.mu.RUnlock(); return r
DataReturn(e) ==
  /\ dpc[e] = "build"
  /\ RUnlock(e)
  /\ report' = [report EXCEPT ![e] = Report(dlocal[e], ResponseCounts)]
  /\ dlocal' = [dlocal EXCEPT ![e] = NoLocal]
  /\ dpc' = [dpc EXCEPT ![e] = "holding"]
  /\ UNCHANGED <<env, call, clock, storeVars, updaterVars, wpc, historyVars>>

\* the caller of Data has encoded the report and lets go of it
Release(e) ==
  /\ dpc[e] = "holding"
  /\ report' = [report EXCEPT ![e] = NoReport]
  /\ heap' = Collect(heap, Live(ResponseCounts, report'))
  /\ dpc' = [dpc EXCEPT ![e] = "idle"]
  /\ UNCHANGED <<env, call, clock, muVars, ResponseCounts, cumulativeVars, MaxResponseTime,
                 updaterVars, wpc, dlocal, historyVars>>

\* what a reference to an object of the store, held by a report, points to
\* (StatusCodeCount holds the id of a window map: heap[id])
Deref(ref) ==
  CASE ref = "TotalResponseCounts" -> TotalResponseCounts
    [] ref = "URLRequestCounts" -> URLRequestCounts
    [] ref = "RequestTypeCounts" -> RequestTypeCounts
    [] ref = "UserAgentCounts" -> UserAgentCounts
    [] ref = "URLRequestLatency" -> URLRequestLatency
    [] ref = "URLHighestResponse" -> URLHighestResponse
    [] ref = "URLLowestResponse" -> URLLowestResponse
    [] ref = "MaxResponseTime" -> MaxResponseTime

(***************************************************************************)
(* The system                                                              *)
(***************************************************************************)
Next ==
  \/ ResetLock
  \/ ResetLockAnnounce
  \/ ResetLockDrained
  \/ ResetAssign
  \/ ResetUnlock
  \/ Sleep
  \/ \E u \in env.updaters : EndNow(u)
  \/ \E u \in env.updaters : EndLock(u)
  \/ \E u \in env.updaters : EndLockAnnounce(u)
  \/ \E u \in env.updaters : EndLockDrained(u)
  \/ \E u \in env.updaters : EndStatus(u)
  \/ \E u \in env.updaters : EndKeys(u)
  \/ \E u \in env.updaters : EndExtremes(u)
  \/ \E u \in env.updaters : EndUnlock(u)
  \/ \E e \in env.exporters : DataBlocked(e)
  \/ \E e \in env.exporters : DataRLock(e)
  \/ \E e \in env.exporters : DataPeak(e)
  \/ \E e \in env.exporters : DataReturn(e)
  \/ \E e \in env.exporters : Release(e)

\* every deployment
Spec == Init /\ [][Next]_vars

\* one worker and one exporter, with mixed traffic
SpecOneWorker == (Init /\ env = OneWorker) /\ [][Next]_vars

\* concurrent workers and exporters
SpecShared == (Init /\ env = Shared) /\ [][Next]_vars

(***************************************************************************)
(* Scheduling.  Goroutines are preemptively scheduled, so a thread whose   *)
(* next step needs no lock takes it.  sync.Mutex hands the writer's turn   *)
(* to a waiter that has waited long (starvation mode), a writer with the   *)
(* turn holds new readers off, and Unlock lets the waiting readers in:     *)
(* a thread that keeps waiting for mu gets it.  Nothing obliges a worker   *)
(* to record a request, nor an exporter to call Data() or to drop a        *)
(* report.                                                                 *)
(***************************************************************************)
\* the scheduler's steps that wait for nothing
SchedulerRuns == ResetLockDrained \/ ResetAssign \/ ResetUnlock \/ Sleep

\* the scheduler takes the writer's turn
SchedulerLocks == ResetLock \/ ResetLockAnnounce

\* updater u's steps inside EndWithStatus that wait for nothing
UpdaterRuns(u) ==
  EndLockDrained(u) \/ EndStatus(u) \/ EndKeys(u) \/ EndExtremes(u) \/ EndUnlock(u)

\* updater u takes the writer's turn
UpdaterLocks(u) == EndLock(u) \/ EndLockAnnounce(u)

\* exporter e's steps inside Data() that wait for nothing
ExporterRuns(e) == DataPeak(e) \/ DataReturn(e)

\* exporter e, waiting in RLock, is let in
ExporterLocks(e) == dpc[e] = "rlock" /\ DataRLock(e)

Fairness ==
  /\ WF_vars(SchedulerRuns)
  /\ SF_vars(SchedulerLocks)
  /\ \A u \in Updaters : WF_vars(UpdaterRuns(u)) /\ SF_vars(UpdaterLocks(u))
  /\ \A e \in Exporters : WF_vars(ExporterRuns(e)) /\ SF_vars(ExporterLocks(e))

\* every deployment, fairly scheduled
FairSpec == Init /\ [][Next]_vars /\ Fairness

(***************************************************************************)
(* SecondsToDate called on its own                                         *)
(***************************************************************************)
\* the lengths in seconds SecondsToDate divides by: minute, hour, day, week
Units == {60, 60*60, 24*60*60, 7*24*60*60}

\* arguments of SecondsToDate: the whole numbers of seconds within Window of
\* a multiple of a unit, up to MaxMultiple units
SecondsInputs ==
  {s \in {k * u + d : k \in 0 .. MaxMultiple, u \in Units, d \in (0 - Window) .. Window} :
     s >= 0}

\* a caller about to call SecondsToDate(seconds2) on a whole number of seconds
InitSecondsToDate ==
  /\ env = OneWorker
  /\ call \in {[seconds2 |-> s, ret |-> NoLocal] : s \in SecondsInputs}
  /\ New

\* the call returns
CallSecondsToDate ==
  /\ call.ret = NoLocal
  /\ call' = [call EXCEPT !.ret = SecondsToDate(call.seconds2)]
  /\ UNCHANGED <<env, clock, muVars, storeVars, updaterVars, wpc, exporterVars,
                 historyVars>>

NextSecondsToDate == CallSecondsToDate

SpecSecondsToDate == InitSecondsToDate /\ [][NextSecondsToDate]_vars

(***************************************************************************)
(* Histories the properties are stated over                                *)
(***************************************************************************)
URLs == {r.url : r \in Requests \cup SameURLRequests}

\* updater u has started folding its request into the store and has not returned
InUpdate(u) == upc[u] \in {"keys", "extremes", "unlock"}

NoUpdateInProgress == \A u \in Updaters : ~InUpdate(u)

\* exporter e holds the values Data() has read from the store
HasRead(e) == dpc[e] \in {"peak", "build"}

RECURSIVE SumElapsed(_)
SumElapsed(s) == IF s = << >> THEN 0 ELSE s[1].elapsed + SumElapsed(Tail(s))

\* the latencies recorded for url, in order
LatenciesOf(url) ==
  LET s == SelectSeq(recorded, LAMBDA r : r.url = url)
  IN  [i \in 1 .. Len(s) |-> s[i].elapsed]

\* the largest of the numbers of s, 0 for none
MaxOf(s) ==
  IF s = << >> THEN 0
  ELSE CHOOSE x \in {s[i] : i \in DOMAIN s} : \A i \in DOMAIN s : s[i] <= x

\* the smallest of the numbers of s, 0 for none
MinOf(s) ==
  IF s = << >> THEN 0
  ELSE CHOOSE x \in {s[i] : i \in DOMAIN s} : \A i \in DOMAIN s : x <= s[i]

\* the minimum with a stored zero read as "not yet set": the minimum of what
\* follows the last zero latency, and zero when the last latency is zero
QuirkMin(s) ==
  LET n == Len(s)
      zeros == {i \in DOMAIN s : s[i] = 0}
      z == IF zeros = {} THEN 0 ELSE CHOOSE i \in zeros : \A j \in zeros : j <= i
  IN  IF n = 0 \/ z = n THEN 0 ELSE MinOf(SubSeq(s, z + 1, n))

\* every entry of m is in m2 with a value at least as large
MapLeq(m, m2) == \A k \in DOMAIN m : k \in DOMAIN m2 /\ m[k] <= m2[k]

(***************************************************************************)
(* Properties                                                              *)
(***************************************************************************)

\* C1: after N calls of the update operation have returned, interleaved in any
\* way with window resets and exports, the values of TotalResponseCounts sum to
\* N, and the totalCount Data() reads at that point is N.
C1_TotalCountIsN ==
  /\ NoUpdateInProgress => SumMap(TotalResponseCounts) = completed
  /\ \A e \in Exporters : HasRead(e) => dlocal[e].totalCount = completed

C1_Witness ==
  /\ completed >= 2
  /\ resetAt >= 1
  /\ Cardinality(DOMAIN TotalResponseCounts) >= 2
  /\ \E e \in Exporters : dpc[e] = "build" /\ dlocal[e].totalCount = completed

\* C2: no lost updates: once every update operation that was started has
\* returned, URLRequestCounts[url] is the number of updates made for url, for
\* every interleaving of the updaters, the scheduler and the exporters.
C2_NoLostUpdates ==
  (\A u \in Updaters : upc[u] = "idle") =>
     /\ Len(recorded) = completed
     /\ \A url \in URLs :
          Get(URLRequestCounts, url) =
            Cardinality({i \in DOMAIN recorded : recorded[i].url = url})

C2_Witness ==
  /\ env = Shared
  /\ \A u \in Updaters : upc[u] = "idle"
  /\ completed = Cardinality(Updaters)
  /\ \E url \in URLs : Get(URLRequestCounts, url) = Cardinality(Updaters)

\* C3: every thread about to write store-owned state (a counter map, the
\* cumulative response time, a field of the peak record) holds the write lock.
C3_WritesHoldExclusive ==
  /\ \A u \in Updaters : upc[u] \in {"status", "keys", "extremes"} => muWriter = u
  /\ wpc = "reset" => muWriter = Scheduler
  /\ \A e \in Exporters : dpc[e] = "peak" => muWriter = e

\* C4: a report Data() has returned is a fixed view: its TotalCount is the sum
\* of its TotalStatusCodeCount map and its Count the sum of its StatusCodeCount
\* map, whatever updates and resets have come after.
C4_ReportImmutable ==
  \A e \in Exporters :
    dpc[e] = "holding" =>
      /\ report[e].TotalCount = SumMap(Deref(report[e].TotalStatusCodeCount))
      /\ report[e].Count = SumMap(heap[report[e].StatusCodeCount])

\* C5: the cumulative response time, measured from the zero time as Data()
\* reads it, is the sum of the elapsed durations of all recorded requests.
C5_CumulativeResponseTime ==
  /\ Sub(TotalResponseTime, ZeroTime) = SumElapsed(recorded)
  /\ \A e \in Exporters :
       HasRead(e) => dlocal[e].totalResponseTime = SumElapsed(recorded)

C5_Witness ==
  /\ Len(recorded) >= 2
  /\ resetAt >= 1
  /\ \A i \in DOMAIN recorded : recorded[i].elapsed > 0
  /\ \E e \in Exporters :
       dpc[e] = "build" /\ dlocal[e].totalResponseTime = SumElapsed(recorded)

\* C6: the average response time of a snapshot is the cumulative response time
\* divided by the total count (integer division) when the count is positive,
\* zero otherwise, both taken from the same state of the store.
C6_Average ==
  \A e \in Exporters :
    /\ HasRead(e) =>
         dlocal[e].averageResponseTime =
           IF Len(recorded) > 0 THEN SumElapsed(recorded) \div Len(recorded) ELSE 0
    /\ dpc[e] = "holding" =>
         report[e].AverageResponseTime =
           IF report[e].TotalCount > 0
           THEN report[e].TotalResponseTime \div report[e].TotalCount
           ELSE 0

C6_Witness ==
  \E e \in Exporters :
    /\ dpc[e] = "holding"
    /\ report[e].TotalCount = 2
    /\ report[e].TotalResponseTime = 1
    /\ report[e].AverageResponseTime = 0

\* the fields of the peak record the update operation sets
PeakCore ==
  <<MaxResponseTime.ResponseURL, MaxResponseTime.RepsonseMethod,
    MaxResponseTime.ResponseDuration, MaxResponseTime.ResponseTime>>

C7_PeakIsMax ==
  (\A u \in Updaters : upc[u] \notin {"keys", "extremes"}) =>
     MaxResponseTime.ResponseDuration = MaxOf([i \in DOMAIN recorded |-> recorded[i].elapsed])

C7_SmallerKeepsPeak ==
  \A u \in Updaters :
    (/\ upc[u] = "extremes"
     /\ upc'[u] = "unlock"
     /\ ulocal[u].responseTime <= MaxResponseTime.ResponseDuration) => PeakCore' = PeakCore

\* C7: the peak duration is the largest elapsed duration recorded so far (zero
\* if none), and an update whose elapsed is at most the peak duration leaves the
\* peak's url, method, duration and observation time as they were.
C7_Peak == [](C7_PeakIsMax) /\ [][C7_SmallerKeepsPeak]_vars

C7_Witness ==
  /\ Len(recorded) = 2
  /\ recorded[1].elapsed > 0
  /\ recorded[2].elapsed = recorded[1].elapsed
  /\ recorded[2].url # recorded[1].url
  /\ \A u \in Updaters : upc[u] = "idle"
  /\ MaxResponseTime.ResponseURL = recorded[1].url
  /\ MaxResponseTime.ResponseDuration = recorded[1].elapsed

C9_ResetEmptiesWindow ==
  resetAt = Len(recorded) =>
     /\ DOMAIN WindowMap = {}
     /\ \A e \in Exporters : HasRead(e) => dlocal[e].count = 0

C9_Witness ==
  /\ resetAt = Len(recorded)
  /\ resetAt >= 1
  /\ wpc \in {"sleep", "lock"}
  /\ \E e \in Exporters :
       dpc[e] = "build" /\ dlocal[e].count = 0 /\ dlocal[e].totalCount = resetAt

C10_Step ==
  /\ MapLeq(TotalResponseCounts, TotalResponseCounts')
  /\ MapLeq(URLRequestCounts, URLRequestCounts')
  /\ MapLeq(URLRequestLatency, URLRequestLatency')
  /\ MapLeq(RequestTypeCounts, RequestTypeCounts')
  /\ MapLeq(UserAgentCounts, UserAgentCounts')
  /\ TotalResponseTime <= TotalResponseTime'
  /\ ~MapLeq(WindowMap, WindowMap') =>
       /\ wpc = "reset" /\ wpc' = "unlock"
       /\ UNCHANGED <<TotalResponseCounts, URLRequestCounts, URLRequestLatency,
                      RequestTypeCounts, UserAgentCounts, TotalResponseTime>>

\* C10: in every step no entry of TotalResponseCounts, URLRequestCounts,
\* URLRequestLatency, RequestTypeCounts, UserAgentCounts nor the cumulative
\* response time decreases; an entry of the window map decreases only in the
\* step of the window reset, which leaves those aggregates unchanged.
C10_Monotone == [][C10_Step]_vars

C10_Witness ==
  /\ wpc = "unlock"
  /\ resetAt >= 1
  /\ DOMAIN WindowMap = {}
  /\ SumMap(TotalResponseCounts) = resetAt
  /\ SumMap(URLRequestLatency) >= 1

\* the counters of the store, by value
Counters == <<WindowMap, cumulativeVars>>

\* exporter e is inside Data() in this step: it enters, or it is between its
\* RLock and its return
InData(e) == HasRead(e) \/ (dpc[e] \in {"idle", "rlock"} /\ dpc'[e] = "peak")

C11_Step == (\E e \in Exporters : InData(e)) => UNCHANGED Counters

\* C11: Data() leaves every counter of the store as it was: from its RLock to
\* its return no step, of the exporter or of any other thread, changes an entry
\* of the window map, of TotalResponseCounts, URLRequestCounts,
\* URLRequestLatency, RequestTypeCounts, UserAgentCounts, URLHighestResponse,
\* URLLowestResponse, or the cumulative response time.
C11_ExportKeepsCounters == [][C11_Step]_vars

C11_Witness ==
  /\ \E e \in Exporters :
       /\ dpc[e] = "holding"
       /\ report[e].TotalCount = 2
       /\ report[e].Count = 1
  /\ SumMap(WindowMap) = 1
  /\ SumMap(TotalResponseCounts) = 2
  /\ Cardinality(DOMAIN URLLowestResponse) = 2

\* C12: for a whole number s >= 0 of seconds, SecondsToDate(s) is (weeks, days,
\* hours, minutes, secs) with weeks*604800 + days*86400 + hours*3600 +
\* minutes*60 + secs = s, days in 0..6, hours in 0..23, minutes and secs in
\* 0..59 and weeks >= 0; for s = 3600 it is one hour and zero elsewhere.
C12_SecondsToDate ==
  call.ret # NoLocal =>
    LET s == call.seconds2
        r == call.ret
    IN  /\ r.Weeks * 604800 + r.Days * 86400 + r.Hours * 3600 + r.Minutes * 60
             + r.Seconds = s
        /\ r.Weeks >= 0
        /\ r.Days \in 0 .. 6
        /\ r.Hours \in 0 .. 23
        /\ r.Minutes \in 0 .. 59
        /\ r.Seconds \in 0 .. 59
        /\ s = 3600 =>
             r = [Weeks |-> 0, Days |-> 0, Hours |-> 1, Minutes |-> 0, Seconds |-> 0]

C12_Witness ==
  /\ call.seconds2 = 2 * 604800 - 1
  /\ call.ret = [Weeks |-> 1, Days |-> 6, Hours |-> 23, Minutes |-> 59, Seconds |-> 59]

\* the earliest recorded request whose elapsed is the largest recorded so far
EarliestMax ==
  LET mx == MaxOf([i \in DOMAIN recorded |-> recorded[i].elapsed])
  IN  recorded[CHOOSE i \in DOMAIN recorded :
                 /\ recorded[i].elapsed = mx
                 /\ \A j \in DOMAIN recorded : recorded[j].elapsed = mx => i <= j]

\* C13: after any non-empty sequence of update operations the peak record's url
\* and method are those of the earliest recorded request whose elapsed is the
\* maximum recorded so far, its duration is that request's, and its observation
\* time is a reading of the clock taken for a request.
C13_PeakIsEarliestMax ==
  (/\ Len(recorded) > 0
   /\ \A u \in Updaters : upc[u] \notin {"keys", "extremes"}) =>
     /\ MaxResponseTime.ResponseURL = EarliestMax.url
     /\ MaxResponseTime.RepsonseMethod = EarliestMax.method
     /\ MaxResponseTime.ResponseDuration = EarliestMax.elapsed
     /\ MaxResponseTime.ResponseTime >= StartTime


C13_PositiveMax ==
  (/\ Len(recorded) > 0
   /\ EarliestMax.elapsed > 0
   /\ \A u \in Updaters : upc[u] \notin {"keys", "extremes"}) =>
     /\ MaxResponseTime.ResponseURL = EarliestMax.url
     /\ MaxResponseTime.RepsonseMethod = EarliestMax.method
     /\ MaxResponseTime.ResponseDuration = EarliestMax.elapsed
     /\ MaxResponseTime.ResponseTime \in StartTime .. clock

C13_ZeroKeepsEmpty ==
  (\A i \in DOMAIN recorded : recorded[i].elapsed = 0) =>
     PeakCore = <<"", "", 0, ZeroTime>>

C13_OneRequest ==
  PeakCore' # PeakCore =>
    \E u \in Updaters :
      /\ upc[u] = "extremes"
      /\ upc'[u] = "unlock"
      /\ PeakCore' = <<ulocal[u].url, ulocal[u].method, ulocal[u].responseTime, clock'>>

\* C13, amended: once a positive elapsed has been recorded, the peak record's
\* url, method and duration are those of the earliest recorded request whose
\* elapsed is the maximum recorded so far; and whenever url, method, duration
\* or observation time of the peak change, all four are set in one step from
\* one request and the reading of the clock taken for it.  While every
\* recorded elapsed is zero the peak is still the empty record of New().
C13_PeakIsEarliestPositiveMax ==
  [](C13_PositiveMax /\ C13_ZeroKeepsEmpty) /\ [][C13_OneRequest]_vars

C13_Witness ==
  /\ Len(recorded) = 2
  /\ recorded[1].url = "/b"
  /\ recorded[2].url = "/a"
  /\ recorded[1].elapsed = 1
  /\ recorded[2].elapsed = 1
  /\ \A u \in Updaters : upc[u] = "idle"
  /\ MaxResponseTime.ResponseURL = "/b"
  /\ MaxResponseTime.RepsonseMethod = "POST"
  /\ MaxResponseTime.ResponseDuration = 1


C14_Step ==
  MaxResponseTime' # MaxResponseTime =>
    \E u \in Updaters : upc[u] = "extremes" /\ upc'[u] = "unlock"

\* C14: only the update operation changes the stored peak record: every step
\* that changes a field of it (url, method, duration, observation time,
\* duration in seconds, time since observed) is the peak step of an
\* EndWithStatus call, never a step of Data() or of the window reset.
C14_PeakWrittenByUpdateOnly == [][C14_Step]_vars


C15_Step ==
  \A u \in Updaters :
    (upc[u] = "extremes" /\ upc'[u] = "unlock") =>
      LET url == ulocal[u].url
          e == ulocal[u].responseTime
          old == URLLowestResponse
      IN  /\ DOMAIN URLLowestResponse' = DOMAIN old \cup {url}
          /\ \A k \in DOMAIN old \ {url} : URLLowestResponse'[k] = old[k]
          /\ URLLowestResponse'[url] =
               IF url \notin DOMAIN old \/ old[url] = 0 THEN e
               ELSE IF e < old[url] THEN e ELSE old[url]

C15_ZeroOverwritten ==
  \A url \in URLs :
    (/\ \A u \in Updaters : upc[u] = "idle"
     /\ Len(LatenciesOf(url)) = 2
     /\ LatenciesOf(url)[1] = 0
     /\ LatenciesOf(url)[2] > 0) => URLLowestResponse[url] = LatenciesOf(url)[2]

\* C15: an update for url with elapsed e sets URLLowestResponse[url] to e when
\* url has no entry or its entry is exactly zero, and to the smaller of the
\* entry and e otherwise, leaving the other entries alone; so after a latency
\* of 0 and then a latency d > 0 for url, URLLowestResponse[url] is d.
C15_MinimumRule == [](C15_ZeroOverwritten) /\ [][C15_Step]_vars

C15_Witness ==
  /\ LatenciesOf("/a") = <<0, 1>>
  /\ \A u \in Updaters : upc[u] = "idle"
  /\ URLLowestResponse["/a"] = 1


\* the URLs recorded so far
RecordedURLs == {recorded[i].url : i \in DOMAIN recorded}

\* C16: after any sequence of update operations with non-negative elapsed
\* durations URLRequestCounts, URLRequestLatency, URLHighestResponse and
\* URLLowestResponse all have the same keys: the URLs recorded so far.
C16_SameKeys ==
  (\A u \in Updaters : upc[u] \notin {"keys", "extremes"}) =>
     /\ \A i \in DOMAIN recorded : recorded[i].elapsed >= 0
     /\ DOMAIN URLRequestCounts = RecordedURLs
     /\ DOMAIN URLRequestLatency = RecordedURLs
     /\ DOMAIN URLHighestResponse = RecordedURLs
     /\ DOMAIN URLLowestResponse = RecordedURLs


\* every aggregate holds the same set of updates
AggregatesAgree ==
  /\ SumMap(TotalResponseCounts) = SumMap(URLRequestCounts)
  /\ SumMap(TotalResponseCounts) = SumMap(RequestTypeCounts)
  /\ SumMap(TotalResponseCounts) = SumMap(UserAgentCounts)
  /\ SumMap(URLRequestLatency) = Sub(TotalResponseTime, ZeroTime)

\* C17: the update operation is atomic to Data(): in every state in which an
\* exporter can take or holds the read lock, whatever the interleaving of
\* updaters, scheduler and exporters, the sums of TotalResponseCounts,
\* URLRequestCounts, RequestTypeCounts and UserAgentCounts are equal and the sum
\* of URLRequestLatency is the cumulative response time: no update is applied to
\* some aggregates and not to others.
C17_UpdateAtomicToReaders ==
  (muWriter = NoThread \/ \E e \in Exporters : HasRead(e)) => AggregatesAgree

C17_Witness ==
  /\ env = Shared
  /\ \E e \in Exporters : HasRead(e) /\ dlocal[e].totalCount = 1
  /\ \E u \in Updaters : upc[u] = "lock"
  /\ completed = 1
  /\ SumMap(URLRequestCounts) = 1


\* the status codes of the traffic, as the keys of the status maps
StatusCodes == {Sprintf_d(r.status) : r \in Requests \cup SameURLRequests}

\* the updates with status code s that took effect after the latest reset
SinceReset(s) ==
  Cardinality({i \in DOMAIN recorded : i > resetAt /\ Sprintf_d(recorded[i].status) = s})

\* C20: in every reachable state and for every status code s, the window count
\* of s is at most the cumulative count of s and equals the number of updates
\* with status s that took effect since the most recent window reset; the
\* window count of a snapshot is at most its total count.
C20_WindowWithinTotal ==
  /\ DOMAIN WindowMap \subseteq StatusCodes
  /\ \A s \in StatusCodes :
       /\ Get(WindowMap, s) <= Get(TotalResponseCounts, s)
       /\ Get(WindowMap, s) = SinceReset(s)
  /\ \A e \in Exporters : HasRead(e) => dlocal[e].count <= dlocal[e].totalCount

C20_Witness ==
  /\ resetAt = 1
  /\ Len(recorded) = 2
  /\ recorded[1].status # recorded[2].status
  /\ Get(WindowMap, Sprintf_d(recorded[2].status)) = 1
  /\ Get(WindowMap, Sprintf_d(recorded[1].status)) = 0
  /\ Get(TotalResponseCounts, Sprintf_d(recorded[1].status)) = 1
  /\ \E e \in Exporters : HasRead(e) /\ dlocal[e].count = 1 /\ dlocal[e].totalCount = 2


\* C18: the window scheduler never stops and, fairly scheduled, resets the
\* window again and again: it is infinitely often just past the assignment of
\* a fresh map, so whenever the window map is non-empty a later state has it
\* empty, also while exporters keep calling Data() and updaters record.
C18_WindowEventuallyReset == []<>(wpc = "unlock" /\ DOMAIN WindowMap = {})


C18_Witness ==
  /\ wpc = "unlock"
  /\ resetAt = 1
  /\ Len(recorded) = 1
  /\ DOMAIN WindowMap = {}
  /\ \E u \in Updaters : upc[u] = "lock"
  /\ \E e \in Exporters : dpc[e] = "rlock"

\* a thread holds mu exactly between its Lock or RLock and its Unlock or RUnlock
LocksHeldInside ==
  /\ \A u \in Updaters :
       muWriter = u <=> upc[u] \in {"drain", "status", "keys", "extremes", "unlock"}
  /\ muWriter = Scheduler <=> wpc \in {"drain", "reset", "unlock"}
  /\ muReaders = {e \in Exporters : dpc[e] \in {"peak", "build"}}

\* C19: no operation blocks for ever: mu is held only inside an operation, some
\* thread can always take a step, and, fairly scheduled, every EndWithStatus
\* call, every window reset and every Data() call that has started returns,
\* with updaters and exporters running concurrently: no thread stays inside
\* an operation from some point on.
C19_NoOperationBlocks ==
  /\ [](LocksHeldInside /\ ENABLED Next)
  /\ \A u \in Updaters : []<>(upc[u] = "idle")
  /\ []<>(wpc = "sleep")
  /\ \A e \in Exporters : []<>(dpc[e] \in {"idle", "holding"})

C19_Witness ==
  /\ env = Shared
  /\ wpc = "drain"
  /\ \E u \in Updaters : upc[u] = "lock"
  /\ \E e \in Exporters : dpc[e] = "rlock"
  /\ \E e \in Exporters : dpc[e] = "build"

=============================================================================
